---------------------------- MODULE Spec2Model ----------------------------
(***************************************************************************)
(* Turn construction of scripts/feature-extraction/2_turns.py: the         *)
(* backchannel classifier (clean_text_to_words, is_backchannel) and the    *)
(* single pass of main() that folds the start-sorted segments into turns.  *)
(*                                                                         *)
(* A text is a sequence of one-character strings.  A time is a number of   *)
(* ticks of 0.75 s, so that MAX_PAUSE_THRESHOLD = 1.5 s is 2 ticks and     *)
(* every time of the model is a float the program represents exactly.      *)
(***************************************************************************)
EXTENDS Integers, Sequences, FiniteSets, TLC

VARIABLES
    df,             \* the sorted data frame: a sequence of rows
    pc,             \* position of main(): "seed", "loop", "done", "raised"
    i,              \* the loop variable of `for i in range(1, len(df))`
    turns,          \* the list of closed turns
    current_turn,   \* the open turn (a dict), None before it is seeded
    output,         \* the files to_csv wrote: none, or the one turn table
    hist,           \* history: the branch main() took for each row consumed
    cl_pc,          \* position of a lone call of is_backchannel
    cl_text,        \* its argument
    cl_result       \* its return value

vars == <<df, pc, i, turns, current_turn, output, hist, cl_pc, cl_text, cl_result>>

builder_vars == <<df, pc, i, turns, current_turn, output, hist>>

classifier_vars == <<cl_pc, cl_text, cl_result>>

(***************************************************************************)
(* Bounds of the model.                                                    *)
(***************************************************************************)
\* the longest data frame
MaxSegs == 3

\* the latest start of a row, in ticks
MaxTime == 2

\* the most raw words in an argument of the lone classifier call
MaxWords == 4

(***************************************************************************)
(* Program constants.                                                      *)
(***************************************************************************)
\* MAX_PAUSE_THRESHOLD = 1.5 (seconds), in ticks of 0.75 s
MAX_PAUSE_THRESHOLD == 2

\* one tick in hundredths of a second
TickHundredths == 150 \div MAX_PAUSE_THRESHOLD

MAX_BC_LENGTH == 3

BACKCHANNEL_CUES ==
    {
      <<"a">>,   \* a
      <<"a","h">>,   \* ah
      <<"a","l","r","i","g","h","t">>,   \* alright
      <<"a","w","e","s","o","m","e">>,   \* awesome
      <<"c","o","o","l">>,   \* cool
      <<"d","o","p","e">>,   \* dope
      <<"e">>,   \* e
      <<"e","x","a","c","t","l","y">>,   \* exactly
      <<"g","o","d">>,   \* god
      <<"g","o","t","c","h","a">>,   \* gotcha
      <<"h","u","h">>,   \* huh
      <<"h","m","m">>,   \* hmm
      <<"m","h","m">>,   \* mhm
      <<"m","m">>,   \* mm
      <<"m","m","m">>,   \* mmm
      <<"n","i","c","e">>,   \* nice
      <<"o","h">>,   \* oh
      <<"o","k","a","y">>,   \* okay
      <<"r","e","a","l","l","y">>,   \* really
      <<"r","i","g","h","t">>,   \* right
      <<"s","i","c","k">>,   \* sick
      <<"s","u","c","k","s">>,   \* sucks
      <<"s","u","r","e">>,   \* sure
      <<"u","h">>,   \* uh
      <<"u","m">>,   \* um
      <<"w","o","w">>,   \* wow
      <<"y","e","a","h">>,   \* yeah
      <<"y","e","p">>,   \* yep
      <<"y","e","s">>,   \* yes
      <<"y","u","p">>   \* yup
    }

NOT_BACKCHANNEL_CUES ==
    {
      <<"a","n","d">>,   \* and
      <<"b","u","t">>,   \* but
      <<"i">>,   \* i
      <<"i","'","m">>,   \* i'm
      <<"i","t">>,   \* it
      <<"i","t","'","s">>,   \* it's
      <<"l","i","k","e">>,   \* like
      <<"s","o">>,   \* so
      <<"t","h","a","t">>,   \* that
      <<"t","h","a","t","'","s">>,   \* that's
      <<"w","e">>,   \* we
      <<"w","e","'","r","e">>,   \* we're
      <<"w","e","l","l">>,   \* well
      <<"y","o","u">>,   \* you
      <<"y","o","u","'","r","e">>   \* you're
    }

(***************************************************************************)
(* Characters and strings.                                                 *)
(***************************************************************************)
LowerAlpha ==
    <<"a","b","c","d","e","f","g","h","i","j","k","l","m",
      "n","o","p","q","r","s","t","u","v","w","x","y","z">>

UpperAlpha ==
    <<"A","B","C","D","E","F","G","H","I","J","K","L","M",
      "N","O","P","Q","R","S","T","U","V","W","X","Y","Z">>

DigitChar == <<"0","1","2","3","4","5","6","7","8","9">>

\* the characters \s matches and str.strip / str.split treat as blank
Whitespace == {" ", "\t", "\n"}

IsLowerAZ(c) == \E k \in 1..26 : LowerAlpha[k] = c

\* the value pandas gives a missing cell: a float, not a str
NaN == <<"<float nan>">>

\* isinstance(v, str)
IsStr(v) == v # NaN

\* the open turn before there is one
None == [none |-> TRUE]

\* str(x): a str is itself, the float nan prints as "nan"
Str(v) == IF v = NaN THEN <<"n","a","n">> ELSE v

\* one character of str.lower()
LowerChar(c) ==
    IF \E k \in 1..26 : UpperAlpha[k] = c
      THEN LowerAlpha[CHOOSE k \in 1..26 : UpperAlpha[k] = c]
      ELSE c

\* text.lower()
Lower(s) == [k \in 1..Len(s) |-> LowerChar(s[k])]

\* re.sub(r"[^a-z\s]", "", text)
KeepLettersAndBlanks(s) == SelectSeq(s, LAMBDA c : IsLowerAZ(c) \/ c \in Whitespace)

\* text.split(): the maximal runs of non-blank characters, in order
RECURSIVE SplitFrom(_, _, _, _)
SplitFrom(s, k, word, acc) ==
    IF k > Len(s)
      THEN IF word = <<>> THEN acc ELSE Append(acc, word)
      ELSE IF s[k] \in Whitespace
             THEN SplitFrom(s, k + 1, <<>>, IF word = <<>> THEN acc ELSE Append(acc, word))
             ELSE SplitFrom(s, k + 1, Append(word, s[k]), acc)

Split(s) == SplitFrom(s, 1, <<>>, <<>>)

\* text.strip(): drop the leading and the trailing blanks
Strip(s) ==
    LET inked == {k \in 1..Len(s) : s[k] \notin Whitespace}
    IN  IF inked = {} THEN <<>>
        ELSE LET lo == CHOOSE k \in inked : \A m \in inked : k <= m
                 hi == CHOOSE k \in inked : \A m \in inked : k >= m
             IN  SubSeq(s, lo, hi)

\* the decimal digits of a natural number
RECURSIVE Digits(_)
Digits(n) ==
    IF n < 10 THEN <<DigitChar[n + 1]>>
    ELSE Digits(n \div 10) \o <<DigitChar[(n % 10) + 1]>>

\* f"{t:.2f}" of a non-negative time of t ticks
Format2f(t) ==
    LET h == t * TickHundredths
    IN  Digits(h \div 100) \o <<".">>
          \o <<DigitChar[((h % 100) \div 10) + 1], DigitChar[(h % 10) + 1]>>

(***************************************************************************)
(* The backchannel classifier.                                             *)
(***************************************************************************)
clean_text_to_words(text) ==
    IF ~IsStr(text) THEN <<>>
    ELSE Split(KeepLettersAndBlanks(Lower(text)))

\* any(w in NOT_BACKCHANNEL_CUES for w in words)
AnyNegativeCue(words) == \E k \in 1..Len(words) : words[k] \in NOT_BACKCHANNEL_CUES

\* sum(1 for w in words if w in BACKCHANNEL_CUES)
CountCues(words) == Cardinality({k \in 1..Len(words) : words[k] \in BACKCHANNEL_CUES})

\* a variant of TooLong: the cutoff is one word too late
TooLongOffByOne(words) == Len(words) > MAX_BC_LENGTH + 1

\* len(words) > MAX_BC_LENGTH
TooLong(words) == Len(words) > MAX_BC_LENGTH

\* a variant of EnoughCues: exactly half is not enough
EnoughCuesStrict(words) == Len(words) > 0 /\ 2 * CountCues(words) > Len(words)

\* len(words) > 0 and (bc_count / len(words)) >= 0.5
EnoughCues(words) == Len(words) > 0 /\ 2 * CountCues(words) >= Len(words)

is_backchannel(text) ==
    LET words == clean_text_to_words(text)
    IN  IF AnyNegativeCue(words) THEN FALSE
        ELSE IF TooLong(words) THEN FALSE
        ELSE IF EnoughCues(words) THEN TRUE
        ELSE FALSE

(***************************************************************************)
(* The input of main(): the rows of speaker_segments.csv after             *)
(* read_csv and sort_values(by="start").                                   *)
(***************************************************************************)
Speakers == {<<"A">>, <<"B">>}

\* "Mm " is a backchannel once stripped and cleaned; " so" holds a negative cue
Texts == {<<"M","m"," ">>, <<" ","s","o">>}

\* how long a segment lasts, in ticks
Durations == {0, 2}

Rows ==
    {[speaker |-> sp, start |-> st, end |-> st + d, text |-> tx] :
        sp \in Speakers, st \in 0..MaxTime, d \in Durations, tx \in Texts}

\* sort_values(by="start") left the rows in non-decreasing order of start;
\* rows of equal start stand in either order, whichever the sort left
SortedByStart(f) == \A k \in 1..(Len(f) - 1) : f[k].start <= f[k + 1].start

\* df.iloc[k]
Iloc(k) == df[k + 1]

(***************************************************************************)
(* The turn builder.                                                       *)
(***************************************************************************)
\* sep.join(list)
RECURSIVE Join(_, _)
Join(list, sep) ==
    IF list = <<>> THEN <<>>
    ELSE IF Len(list) = 1 THEN list[1]
    ELSE list[1] \o sep \o Join(Tail(list), sep)

\* str(row["text"]).strip()
RowText(row) == Strip(Str(row.text))

\* a variant of Gap: the gap is taken from the end of the row before,
\* whatever became of that row
GapFromLastRow(turn, row) == row.start - Iloc(i - 1).end

\* row["start"] - current_turn["end"]
Gap(turn, row) == row.start - turn.end

\* a variant of ShortPause: a gap equal to the threshold counts as short
ShortPauseInclusive(gap) == gap <= MAX_PAUSE_THRESHOLD

\* a variant of ShortPause: the threshold is taken one tick too low
ShortPauseTooLow(gap) == gap < MAX_PAUSE_THRESHOLD - 1

\* gap < MAX_PAUSE_THRESHOLD
ShortPause(gap) == gap < MAX_PAUSE_THRESHOLD

\* a variant of NewTurn: the text is taken without strip()
NewTurnUntrimmed(row) ==
    [speaker |-> row.speaker, start |-> row.start, end |-> row.end,
     text |-> Str(row.text), bc_count |-> 0, secondary_speech |-> <<>>]

\* the dict a turn starts as
NewTurn(row) ==
    [speaker |-> row.speaker, start |-> row.start, end |-> row.end,
     text |-> RowText(row), bc_count |-> 0, secondary_speech |-> <<>>]

\* a variant of MergeInto: the texts are joined without the blank
MergeWithoutSpace(turn, row) ==
    [turn EXCEPT !.end = row.end, !.text = turn.text \o RowText(row)]

\* a variant of MergeInto: the merge also moves start to the merged row
MergeMovesStart(turn, row) ==
    [turn EXCEPT !.start = row.start, !.end = row.end,
                 !.text = turn.text \o <<" ">> \o RowText(row)]

\* current_turn["end"] = row["end"]; current_turn["text"] += " " + text
MergeInto(turn, row) ==
    [turn EXCEPT !.end = row.end, !.text = turn.text \o <<" ">> \o RowText(row)]

\* f"{row['speaker']}: [{row['start']:.2f}-{row['end']:.2f}]: {text}"
Annotation(row) ==
    row.speaker \o <<":", " ", "[">> \o Format2f(row.start) \o <<"-">>
        \o Format2f(row.end) \o <<"]", ":", " ">> \o RowText(row)

\* a variant of Absorb: the counter moves but the annotation is not appended
AbsorbCountOnly(turn, row) == [turn EXCEPT !.bc_count = turn.bc_count + 1]

\* a variant of Absorb: the backchannel also extends the turn to its end
AbsorbExtendsEnd(turn, row) ==
    [turn EXCEPT !.end = row.end, !.bc_count = turn.bc_count + 1,
                 !.secondary_speech = Append(turn.secondary_speech, Annotation(row))]

\* a variant of Absorb: the annotation is put in front of the list
AbsorbPrepends(turn, row) ==
    [turn EXCEPT !.bc_count = turn.bc_count + 1,
                 !.secondary_speech = <<Annotation(row)>> \o turn.secondary_speech]

\* a variant of Absorb: the annotation is appended but the counter stays
AbsorbAnnotationOnly(turn, row) ==
    [turn EXCEPT !.secondary_speech = Append(turn.secondary_speech, Annotation(row))]

\* current_turn["bc_count"] += 1; current_turn["secondary_speech"].append(...)
Absorb(turn, row) ==
    [turn EXCEPT !.bc_count = turn.bc_count + 1,
                 !.secondary_speech = Append(turn.secondary_speech, Annotation(row))]

\* turns_df['secondary_speech'].apply(lambda x: "; ".join(x))
Flatten(turn) == [turn EXCEPT !.secondary_speech = Join(turn.secondary_speech, <<";", " ">>)]

\* the history entry of row k
Took(k, kind) == [row |-> k, kind |-> kind, turn |-> Len(turns) + 1]

\* a variant of Seed: an empty frame is not an error, the pass goes on to
\* write an empty turn list
SeedDefaultsOnEmpty ==
    /\ pc = "seed"
    /\ IF Len(df) = 0
         THEN /\ pc' = "done"
              /\ output' = <<turns>>
              /\ UNCHANGED <<i, turns, current_turn, hist>>
         ELSE /\ pc' = "loop"
              /\ i' = 1
              /\ turns' = <<>>
              /\ current_turn' = NewTurn(Iloc(0))
              /\ hist' = <<Took(0, "seed")>>
              /\ UNCHANGED output
    /\ UNCHANGED <<df, classifier_vars>>

\* a variant of Seed: a first row whose text is a backchannel is counted as one
SeedCountsBackchannel ==
    /\ pc = "seed"
    /\ IF Len(df) = 0
         THEN /\ pc' = "raised"
              /\ UNCHANGED <<i, turns, current_turn, hist>>
         ELSE /\ pc' = "loop"
              /\ i' = 1
              /\ turns' = <<>>
              /\ current_turn' =
                    IF is_backchannel(RowText(Iloc(0)))
                      THEN Absorb(NewTurn(Iloc(0)), Iloc(0))
                      ELSE NewTurn(Iloc(0))
              /\ hist' = <<Took(0, "seed")>>
    /\ UNCHANGED <<df, output, classifier_vars>>

\* lines 82-90: turns = [], the open turn from df.iloc[0]; an empty frame
\* makes df.iloc[0] raise IndexError, which nothing catches
Seed ==
    /\ pc = "seed"
    /\ IF Len(df) = 0
         THEN /\ pc' = "raised"
              /\ UNCHANGED <<i, turns, current_turn, hist>>
         ELSE /\ pc' = "loop"
              /\ i' = 1
              /\ turns' = <<>>
              /\ current_turn' = NewTurn(Iloc(0))
              /\ hist' = <<Took(0, "seed")>>
    /\ UNCHANGED <<df, output, classifier_vars>>

InLoop == pc = "loop" /\ i < Len(df)

\* a variant of LongPause: the open turn is replaced without being appended
LongPauseDropsTurn ==
    /\ InLoop
    /\ Iloc(i).speaker = current_turn.speaker
    /\ ~ShortPause(Gap(current_turn, Iloc(i)))
    /\ current_turn' = NewTurn(Iloc(i))
    /\ hist' = Append(hist, [Took(i, "seed") EXCEPT !.turn = Len(turns) + 2])
    /\ i' = i + 1
    /\ UNCHANGED <<df, pc, turns, output, classifier_vars>>

\* lines 100-104
Merge ==
    /\ InLoop
    /\ Iloc(i).speaker = current_turn.speaker
    /\ ShortPause(Gap(current_turn, Iloc(i)))
    /\ current_turn' = MergeInto(current_turn, Iloc(i))
    /\ hist' = Append(hist, Took(i, "merge"))
    /\ i' = i + 1
    /\ UNCHANGED <<df, pc, turns, output, classifier_vars>>

\* lines 105-115
LongPause ==
    /\ InLoop
    /\ Iloc(i).speaker = current_turn.speaker
    /\ ~ShortPause(Gap(current_turn, Iloc(i)))
    /\ turns' = Append(turns, current_turn)
    /\ current_turn' = NewTurn(Iloc(i))
    /\ hist' = Append(hist, [Took(i, "seed") EXCEPT !.turn = Len(turns) + 2])
    /\ i' = i + 1
    /\ UNCHANGED <<df, pc, output, classifier_vars>>

\* a variant of Backchannel: the classifier is asked whoever speaks
BackchannelAnySpeaker ==
    /\ InLoop
    /\ is_backchannel(RowText(Iloc(i)))
    /\ current_turn' = Absorb(current_turn, Iloc(i))
    /\ hist' = Append(hist, Took(i, "bc"))
    /\ i' = i + 1
    /\ UNCHANGED <<df, pc, turns, output, classifier_vars>>

\* lines 118-125
Backchannel ==
    /\ InLoop
    /\ Iloc(i).speaker # current_turn.speaker
    /\ is_backchannel(RowText(Iloc(i)))
    /\ current_turn' = Absorb(current_turn, Iloc(i))
    /\ hist' = Append(hist, Took(i, "bc"))
    /\ i' = i + 1
    /\ UNCHANGED <<df, pc, turns, output, classifier_vars>>

\* lines 126-136
Switch ==
    /\ InLoop
    /\ Iloc(i).speaker # current_turn.speaker
    /\ ~is_backchannel(RowText(Iloc(i)))
    /\ turns' = Append(turns, current_turn)
    /\ current_turn' = NewTurn(Iloc(i))
    /\ hist' = Append(hist, [Took(i, "seed") EXCEPT !.turn = Len(turns) + 2])
    /\ i' = i + 1
    /\ UNCHANGED <<df, pc, output, classifier_vars>>

\* a variant of Finish: the table is written without the turn still open
FinishWithoutLast ==
    /\ pc = "loop"
    /\ i >= Len(df)
    /\ output' = <<[k \in 1..Len(turns) |-> Flatten(turns[k])]>>
    /\ pc' = "done"
    /\ UNCHANGED <<df, i, turns, current_turn, hist, classifier_vars>>

\* lines 138-145: the loop is over; the open turn is appended and the
\* turns are written with secondary_speech joined
Finish ==
    /\ pc = "loop"
    /\ i >= Len(df)
    /\ turns' = Append(turns, current_turn)
    /\ output' = <<[k \in 1..(Len(turns) + 1) |-> Flatten(Append(turns, current_turn)[k])]>>
    /\ pc' = "done"
    /\ UNCHANGED <<df, i, current_turn, hist, classifier_vars>>

Init ==
    /\ \E n \in 0..MaxSegs : df \in [1..n -> Rows]
    /\ SortedByStart(df)
    /\ pc = "seed"
    /\ i = 0
    /\ turns = <<>>
    /\ current_turn = None
    /\ output = <<>>
    /\ hist = <<>>
    /\ cl_pc = "idle"
    /\ cl_text = <<>>
    /\ cl_result = FALSE

Next == Seed \/ Merge \/ LongPause \/ Backchannel \/ Switch \/ Finish

Spec == Init /\ [][Next]_vars

(***************************************************************************)
(* The same pass over a conversation of three speakers whose segments      *)
(* each start and end at one tick.                                         *)
(***************************************************************************)
ThreeSpeakers == Speakers \cup {<<"C">>}

PointRows ==
    {[speaker |-> sp, start |-> st, end |-> st, text |-> tx] :
        sp \in ThreeSpeakers, st \in 0..MaxTime, tx \in Texts}

InitThreeSpeakers ==
    /\ \E n \in 0..MaxSegs : df \in [1..n -> PointRows]
    /\ SortedByStart(df)
    /\ pc = "seed"
    /\ i = 0
    /\ turns = <<>>
    /\ current_turn = None
    /\ output = <<>>
    /\ hist = <<>>
    /\ cl_pc = "idle"
    /\ cl_text = <<>>
    /\ cl_result = FALSE

SpecThreeSpeakers == InitThreeSpeakers /\ [][Next]_vars

(***************************************************************************)
(* A lone call of is_backchannel, on every argument made of at most        *)
(* MaxWords raw words, and on a value that is not a str.                   *)
(***************************************************************************)
RawWords ==
    { <<"y","e","a","h">>,
      <<"O","k","a","y",".">>,
      <<"u","h">>,
      <<"b","u","t">>,
      <<"i","t","'","s">>,
      <<"h","e","l","l","o">>,
      <<"-","-">> }

RECURSIVE Phrases(_)
Phrases(n) ==
    IF n = 0 THEN {<<>>}
    ELSE {<<w>> \o p : w \in RawWords, p \in Phrases(n - 1)}

ClassifierArgs ==
    {NaN} \cup {Join(p, <<" ">>) : p \in UNION {Phrases(n) : n \in 0..MaxWords}}

Classify ==
    /\ cl_pc = "call"
    /\ cl_result' = is_backchannel(cl_text)
    /\ cl_pc' = "returned"
    /\ UNCHANGED <<cl_text, builder_vars>>

InitClassifier ==
    /\ cl_pc = "call"
    /\ cl_text \in ClassifierArgs
    /\ cl_result = FALSE
    /\ df = <<>>
    /\ pc = "idle"
    /\ i = 0
    /\ turns = <<>>
    /\ current_turn = None
    /\ output = <<>>
    /\ hist = <<>>

NextClassifier == Classify

SpecClassifier == InitClassifier /\ [][NextClassifier]_vars

(***************************************************************************)
(* Properties.                                                             *)
(***************************************************************************)
Seeded == pc \in {"loop", "done"}

\* every turn there is: the closed ones and, while the loop runs, the open one
AllTurns == IF pc = "loop" THEN Append(turns, current_turn) ELSE turns

\* the rows whose history entry says they went to turn t in one of `kinds`
RowsOf(t, kinds) ==
    LET es == SelectSeq(hist, LAMBDA h : h.turn = t /\ h.kind \in kinds)
    IN  [k \in 1..Len(es) |-> Iloc(es[k].row)]

TextsOf(rows) == [k \in 1..Len(rows) |-> Strip(Str(rows[k].text))]

AnnotationsOf(rows) == [k \in 1..Len(rows) |-> Annotation(rows[k])]

\* C1 (conservation): once the first row is seeded, the rows consumed so far
\* are accounted for one entry each, in order; the text of every turn is the
\* blank-joined trimmed texts of exactly the rows that seeded it or were
\* merged into it, and its secondary_speech is the annotations of exactly
\* the rows absorbed into it.  After the pass every row of a non-empty frame
\* is consumed, so each one is in exactly one of the two places.
C1_Conservation ==
    Seeded =>
        /\ Len(hist) = i
        /\ \A k \in 1..Len(hist) : hist[k].row = k - 1 /\ hist[k].turn \in 1..Len(AllTurns)
        /\ pc = "done" => i = Len(df)
        /\ \A t \in 1..Len(AllTurns) :
              /\ AllTurns[t].text = Join(TextsOf(RowsOf(t, {"seed", "merge"})), <<" ">>)
              /\ AllTurns[t].secondary_speech = AnnotationsOf(RowsOf(t, {"bc"}))

C1_Witness ==
    /\ pc = "done"
    /\ Len(df) = 3
    /\ \E t \in 1..Len(turns) :
          Len(RowsOf(t, {"seed", "merge"})) = 2 /\ Len(RowsOf(t, {"bc"})) = 1

\* C2 (end never decreases): a step that leaves the same turn open leaves
\* its end greater than or equal to what it was.
C2_EndNeverDecreases ==
    [][(pc = "loop" /\ pc' = "loop" /\ turns' = turns)
          => current_turn'.end >= current_turn.end]_vars

\* the words of a text as written: lowercased, split at blanks, punctuation kept
WrittenWords(text) == IF IsStr(text) THEN Split(Lower(text)) ELSE <<>>

\* C3 (negative-cue precedence): a text one of whose words is a member of
\* the negative-cue set is classified not-backchannel.
C3_NegativeCuePrecedence ==
    (cl_pc = "returned" /\ AnyNegativeCue(WrittenWords(cl_text))) => cl_result = FALSE

\* C4 (backchannel non-interference): the step that takes a row of another
\* speaker whose trimmed text is a backchannel leaves speaker, start, end and
\* text of the open turn and the closed turns as they were, adds one to
\* bc_count and appends one annotation to secondary_speech.
C4_BackchannelNonInterference ==
    [][(InLoop /\ Iloc(i).speaker # current_turn.speaker
               /\ is_backchannel(Strip(Str(Iloc(i).text))))
          => /\ current_turn'.speaker = current_turn.speaker
             /\ current_turn'.start = current_turn.start
             /\ current_turn'.end = current_turn.end
             /\ current_turn'.text = current_turn.text
             /\ turns' = turns
             /\ current_turn'.bc_count = current_turn.bc_count + 1
             /\ Len(current_turn'.secondary_speech) = Len(current_turn.secondary_speech) + 1
             /\ SubSeq(current_turn'.secondary_speech, 1, Len(current_turn.secondary_speech))
                   = current_turn.secondary_speech]_vars

\* a backchannel that ends after the open turn does has been absorbed
C4_Witness ==
    /\ pc = "loop"
    /\ hist[Len(hist)].kind = "bc"
    /\ Iloc(i - 1).end > current_turn.end

\* the next row is of the open turn's speaker and starts exactly
\* MAX_PAUSE_THRESHOLD after the open turn's end
AtThreshold ==
    /\ InLoop
    /\ Iloc(i).speaker = current_turn.speaker
    /\ Iloc(i).start - current_turn.end = MAX_PAUSE_THRESHOLD

\* C5 as stated (pause-threshold boundary): a row of the same speaker whose
\* gap equals the threshold is merged into the open turn.
C5_EqualGapMerges ==
    [][AtThreshold
          => /\ turns' = turns
             /\ current_turn'.start = current_turn.start
             /\ current_turn'.end = Iloc(i).end]_vars

\* C5 as amended: a row of the same speaker whose gap equals the threshold
\* closes the open turn and seeds a new one; only a gap strictly below the
\* threshold is merged.
C5_EqualGapSplits ==
    [][AtThreshold
          => /\ turns' = Append(turns, current_turn)
             /\ current_turn'.start = Iloc(i).start
             /\ current_turn'.text = Strip(Str(Iloc(i).text))]_vars

\* the open turn was seeded by a row of the speaker of the turn closed last,
\* exactly MAX_PAUSE_THRESHOLD after that turn's end
C5_Witness ==
    /\ pc = "loop"
    /\ Len(turns) >= 1
    /\ hist[Len(hist)].kind = "seed"
    /\ turns[Len(turns)].speaker = Iloc(i - 1).speaker
    /\ Iloc(i - 1).start - turns[Len(turns)].end = MAX_PAUSE_THRESHOLD

\* C6 (empty input is an error): once main() has gone past an empty frame it
\* has raised; no turn was built, no turn list exists and nothing is written.
C6_EmptyInputRaises ==
    (Len(df) = 0 /\ pc # "seed")
        => (pc = "raised" /\ current_turn = None /\ turns = <<>> /\ output = <<>>)

C6_Witness == Len(df) = 0 /\ pc = "raised"

\* the step created a turn
TurnCreated == Len(hist') = Len(hist) + 1 /\ hist'[Len(hist')].kind = "seed"

\* C7 (one open turn, closed turns frozen): after the first row is seeded
\* there is an open turn; every step keeps each closed turn as it is, appends
\* at most one turn, and appends one, the turn open until then, exactly when
\* it creates a turn or ends the pass.
C7_ClosedTurnsFrozen ==
    [][pc = "loop"
          => /\ current_turn # None
             /\ Len(turns') >= Len(turns)
             /\ SubSeq(turns', 1, Len(turns)) = turns
             /\ Len(turns') <= Len(turns) + 1
             /\ (Len(turns') = Len(turns) + 1) <=> (TurnCreated \/ pc' = "done")
             /\ (Len(turns') = Len(turns) + 1) => turns'[Len(turns')] = current_turn
             /\ pc' = "loop" => current_turn' # None]_vars

\* a turn is closed and the open turn has since merged a row or absorbed a
\* backchannel
C7_Witness ==
    /\ pc = "loop"
    /\ Len(turns) >= 1
    /\ hist[Len(hist)].kind \in {"merge", "bc"}

\* C8 (same-speaker rule): a row of the open turn's speaker with
\* gap < MAX_PAUSE_THRESHOLD, negative gaps included, is merged: end becomes
\* the row's end, text the old text, a blank and the trimmed row text, no
\* turn is closed.  Otherwise the open turn is closed and the row seeds a
\* turn with no backchannels and no secondary speech.
C8_SameSpeakerRule ==
    [][(InLoop /\ Iloc(i).speaker = current_turn.speaker)
          => IF Iloc(i).start - current_turn.end < MAX_PAUSE_THRESHOLD
               THEN /\ turns' = turns
                    /\ current_turn' =
                          [speaker |-> current_turn.speaker,
                           start |-> current_turn.start,
                           end |-> Iloc(i).end,
                           text |-> current_turn.text \o <<" ">> \o Strip(Str(Iloc(i).text)),
                           bc_count |-> current_turn.bc_count,
                           secondary_speech |-> current_turn.secondary_speech]
               ELSE /\ turns' = Append(turns, current_turn)
                    /\ current_turn' =
                          [speaker |-> Iloc(i).speaker,
                           start |-> Iloc(i).start,
                           end |-> Iloc(i).end,
                           text |-> Strip(Str(Iloc(i).text)),
                           bc_count |-> 0,
                           secondary_speech |-> <<>>]]_vars

\* a row overlapping the open turn was merged, and a later row of the same
\* speaker split the turn
C8_Witness ==
    /\ pc = "done"
    /\ Len(turns) = 2
    /\ turns[1].speaker = turns[2].speaker
    /\ hist[2].kind = "merge"
    /\ Iloc(1).start < Iloc(0).end
    /\ hist[3].kind = "seed"

\* C9 (genuine turn switch): a row of another speaker whose trimmed text is
\* not a backchannel closes the open turn as it is and opens a turn of the
\* row's speaker, start, end and trimmed text with no backchannels and no
\* secondary speech, whatever the gap.
C9_GenuineSwitch ==
    [][(InLoop /\ Iloc(i).speaker # current_turn.speaker
               /\ ~is_backchannel(Strip(Str(Iloc(i).text))))
          => /\ turns' = Append(turns, current_turn)
             /\ current_turn' =
                   [speaker |-> Iloc(i).speaker,
                    start |-> Iloc(i).start,
                    end |-> Iloc(i).end,
                    text |-> Strip(Str(Iloc(i).text)),
                    bc_count |-> 0,
                    secondary_speech |-> <<>>]]_vars

\* a switch happened on a row that overlaps the turn it closed
C9_Witness ==
    /\ pc = "loop"
    /\ Len(turns) >= 1
    /\ hist[Len(hist)].kind = "seed"
    /\ turns[Len(turns)].speaker # current_turn.speaker
    /\ Iloc(i - 1).start < turns[Len(turns)].end

\* the row that seeded turn t
SeedRowOf(t) == RowsOf(t, {"seed"})[1]

\* C10 (start is fixed): in every state, the start of every turn, open or
\* closed, is the start of the row that seeded it.
C10_StartFixed ==
    Seeded =>
        \A t \in 1..Len(AllTurns) :
            /\ Len(RowsOf(t, {"seed"})) = 1
            /\ AllTurns[t].start = SeedRowOf(t).start

\* a turn has merged a row that starts later than it and absorbed a backchannel
C10_Witness ==
    /\ Seeded
    /\ \E t \in 1..Len(AllTurns) :
          /\ Len(RowsOf(t, {"bc"})) >= 1
          /\ \E k \in 1..Len(RowsOf(t, {"merge"})) :
                RowsOf(t, {"merge"})[k].start > AllTurns[t].start

\* the tokens the classifier sees in its argument
Tokens == clean_text_to_words(cl_text)

\* how many of the tokens are backchannel cues
CueTokens == Cardinality({k \in 1..Len(Tokens) : Tokens[k] \in BACKCHANNEL_CUES})

NoNegativeToken == \A k \in 1..Len(Tokens) : Tokens[k] \notin NOT_BACKCHANNEL_CUES

\* C11 (length cutoff): a text of more than MAX_BC_LENGTH tokens is
\* classified not-backchannel, also when every token is a backchannel cue
\* and none a negative cue.
C11_LengthCutoff ==
    (cl_pc = "returned" /\ Len(Tokens) > MAX_BC_LENGTH) => cl_result = FALSE

\* four tokens, every one a backchannel cue
C11_Witness ==
    /\ cl_pc = "returned"
    /\ Len(Tokens) = MAX_BC_LENGTH + 1
    /\ CueTokens = Len(Tokens)
    /\ NoNegativeToken
    /\ cl_result = FALSE

\* C12 (cue-fraction rule): with no negative-cue token and 1 to 3 tokens the
\* classifier answers backchannel exactly when 2 * cue_count >= token_count;
\* with no token at all (empty, punctuation only, not a str) it answers
\* not-backchannel.
C12_CueFraction ==
    cl_pc = "returned" =>
        /\ Len(Tokens) = 0 => cl_result = FALSE
        /\ (NoNegativeToken /\ Len(Tokens) \in 1..3)
              => (cl_result = TRUE <=> 2 * CueTokens >= Len(Tokens))

\* two tokens, one of them a cue: exactly half
C12_Witness ==
    /\ cl_pc = "returned"
    /\ Len(Tokens) = 2
    /\ CueTokens = 1
    /\ NoNegativeToken
    /\ cl_result = TRUE

\* the end of the row last seeded or merged into the open turn
LastMergedEnd ==
    LET rs == RowsOf(Len(turns) + 1, {"seed", "merge"})
    IN  rs[Len(rs)].end

\* C13 (the gap is measured against the turn): when a row of the open
\* turn's speaker comes right after absorbed backchannels, the open turn's
\* end is still the end of the row last seeded or merged into it, and the
\* row splits the turn exactly when its start minus that end is
\* >= MAX_PAUSE_THRESHOLD, and is merged otherwise, wherever the
\* backchannels in between ended.
C13_GapAgainstTurn ==
    [][(InLoop /\ Iloc(i).speaker = current_turn.speaker /\ hist[Len(hist)].kind = "bc")
          => /\ current_turn.end = LastMergedEnd
             /\ IF Iloc(i).start - LastMergedEnd >= MAX_PAUSE_THRESHOLD
                  THEN /\ turns' = Append(turns, current_turn)
                       /\ current_turn'.start = Iloc(i).start
                       /\ current_turn'.bc_count = 0
                  ELSE /\ turns' = turns
                       /\ current_turn'.start = current_turn.start
                       /\ current_turn'.end = Iloc(i).end]_vars

\* a row split the turn of its own speaker although the backchannel before
\* it ended less than MAX_PAUSE_THRESHOLD before the row starts
C13_Witness ==
    /\ pc = "loop"
    /\ i >= 3
    /\ hist[i].kind = "seed"
    /\ hist[i - 1].kind = "bc"
    /\ turns[Len(turns)].speaker = Iloc(i - 1).speaker
    /\ Iloc(i - 1).start - Iloc(i - 2).end < MAX_PAUSE_THRESHOLD

\* C14 (consecutive backchannels share one host): every row of a speaker
\* other than the open turn's whose trimmed text is a backchannel, whoever
\* of the other speakers it is from, whatever the gap and whatever was
\* absorbed before it, is attached to the turn that is open: that turn stays
\* open with its speaker and start, its annotation goes to the end of
\* secondary_speech, after those of the rows before it, and no turn is
\* closed or created.
C14_BackchannelsShareHost ==
    [][(InLoop /\ Iloc(i).speaker # current_turn.speaker
               /\ is_backchannel(Strip(Str(Iloc(i).text))))
          => /\ turns' = turns
             /\ ~TurnCreated
             /\ current_turn'.speaker = current_turn.speaker
             /\ current_turn'.start = current_turn.start
             /\ current_turn'.secondary_speech
                   = Append(current_turn.secondary_speech, Annotation(Iloc(i)))
             /\ hist'[Len(hist')].turn = hist[Len(hist)].turn]_vars

\* the open turn has absorbed, one after the other, backchannels of two
\* different speakers, and their annotations stand in arrival order
C14_Witness ==
    /\ pc = "loop"
    /\ i >= 3
    /\ hist[i].kind = "bc"
    /\ hist[i - 1].kind = "bc"
    /\ Iloc(i - 1).speaker # Iloc(i - 2).speaker
    /\ current_turn.secondary_speech = <<Annotation(Iloc(i - 2)), Annotation(Iloc(i - 1))>>
    /\ turns = <<>>

\* C15 (the classifier is asked only on a speaker mismatch): a row of the
\* open turn's speaker, also one whose text is a backchannel, is merged into
\* the text (gap < MAX_PAUSE_THRESHOLD) or seeds a new turn (otherwise); the
\* step leaves bc_count and secondary_speech of every turn there was as they
\* were, and the new turn, if any, has none.
C15_SameSpeakerNeverBackchannel ==
    [][(InLoop /\ Iloc(i).speaker = current_turn.speaker)
          => LET old == Append(turns, current_turn)
                 new == Append(turns', current_turn')
             IN  /\ Len(new) >= Len(old)
                 /\ \A t \in 1..Len(old) :
                       /\ new[t].bc_count = old[t].bc_count
                       /\ new[t].secondary_speech = old[t].secondary_speech
                 /\ IF Iloc(i).start - current_turn.end < MAX_PAUSE_THRESHOLD
                      THEN /\ Len(new) = Len(old)
                           /\ current_turn'.text
                                 = current_turn.text \o <<" ">> \o Strip(Str(Iloc(i).text))
                      ELSE /\ Len(new) = Len(old) + 1
                           /\ current_turn'.text = Strip(Str(Iloc(i).text))
                           /\ current_turn'.bc_count = 0
                           /\ current_turn'.secondary_speech = <<>>]_vars

\* a row of the open turn's speaker whose text is a backchannel was merged
C15_Witness ==
    /\ pc = "loop"
    /\ i >= 2
    /\ hist[i].kind = "merge"
    /\ is_backchannel(Strip(Str(Iloc(i - 1).text)))
    /\ current_turn.bc_count = 0

\* s begins with p
StartsWith(s, p) == Len(s) >= Len(p) /\ SubSeq(s, 1, Len(p)) = p

\* C16 (the first segment seeds unconditionally): for a non-empty frame the
\* first row starts earliest; when the first turn is created it has that
\* row's speaker, start, end and trimmed text, bc_count 0 and no secondary
\* speech, also when the text is a backchannel; from then on the first turn
\* keeps that speaker and start and its text begins with that text; the
\* first row is in the history once, as the seed of turn 1, never as a
\* backchannel.
C16_FirstSegmentSeeds ==
    (Seeded /\ Len(df) >= 1) =>
        /\ \A k \in 1..Len(df) : Iloc(0).start <= df[k].start
        /\ (pc = "loop" /\ i = 1) =>
              current_turn = [speaker |-> Iloc(0).speaker,
                              start |-> Iloc(0).start,
                              end |-> Iloc(0).end,
                              text |-> Strip(Str(Iloc(0).text)),
                              bc_count |-> 0,
                              secondary_speech |-> <<>>]
        /\ AllTurns[1].speaker = Iloc(0).speaker
        /\ AllTurns[1].start = Iloc(0).start
        /\ StartsWith(AllTurns[1].text, Strip(Str(Iloc(0).text)))
        /\ hist[1] = [row |-> 0, kind |-> "seed", turn |-> 1]
        /\ \A k \in 2..Len(hist) : hist[k].row # 0

\* the pass is over a frame whose first row has a backchannel text, and that
\* row owns the first turn
C16_Witness ==
    /\ pc = "done"
    /\ Len(df) >= 2
    /\ is_backchannel(Strip(Str(Iloc(0).text)))
    /\ turns[1].text = Strip(Str(Iloc(0).text))

\* what is left to do: the seeding, the rows not yet consumed, the writing
StepsLeft ==
    CASE pc = "seed" -> Len(df) + 2
      [] pc = "loop" -> (Len(df) - i) + 1
      [] OTHER -> 0

\* a statement is left to run: the guard of one of the steps of main() holds
CanStep ==
    \/ pc = "seed"
    \/ pc = "loop" /\ i >= Len(df)
    \/ /\ InLoop
       /\ Iloc(i).speaker = current_turn.speaker
       /\ ShortPause(Gap(current_turn, Iloc(i))) \/ ~ShortPause(Gap(current_turn, Iloc(i)))
    \/ /\ InLoop
       /\ Iloc(i).speaker # current_turn.speaker
       /\ is_backchannel(RowText(Iloc(i))) \/ ~is_backchannel(RowText(Iloc(i)))

\* C17 (completion): the rows are consumed one by one in order, never past
\* the last; until the pass is over a step is always possible and every step
\* brings the end nearer, so the pass of a non-empty frame ends after
\* len(df) + 1 steps; at its end every row is consumed, the turn open last
\* is the last element of the turn list, the list holds at least 1 and at
\* most len(df) turns, and it is what is written.
C17_Completion ==
    /\ [](Seeded =>
             /\ i \in 1..Len(df)
             /\ Len(hist) = i
             /\ \A k \in 1..Len(hist) : hist[k].row = k - 1)
    /\ []((pc = "seed" \/ pc = "loop") => CanStep)
    /\ [][StepsLeft' < StepsLeft /\ StepsLeft' >= 0
             /\ (pc = "loop" /\ pc' = "loop" => i' = i + 1)]_vars
    /\ [](pc = "done" =>
             /\ i = Len(df)
             /\ Len(turns) \in 1..Len(df)
             /\ turns[Len(turns)] = current_turn
             /\ Len(output) = 1
             /\ Len(output[1]) = Len(turns)
             /\ \A t \in 1..Len(turns) :
                   /\ output[1][t].speaker = turns[t].speaker
                   /\ output[1][t].text = turns[t].text)

\* the pass is over and every row made a turn of its own
C17_Witness ==
    /\ pc = "done"
    /\ Len(df) = 3
    /\ Len(turns) = 3
    /\ Len(output) = 1

\* C18 (the counter matches the annotations): in every state, bc_count of
\* every turn, open or closed, is the length of its secondary_speech.
C18_CounterMatchesAnnotations ==
    Seeded =>
        \A t \in 1..Len(AllTurns) :
            AllTurns[t].bc_count = Len(AllTurns[t].secondary_speech)

\* the open turn has absorbed two backchannels
C18_Witness ==
    /\ pc = "loop"
    /\ current_turn.bc_count = 2
    /\ Len(current_turn.secondary_speech) = 2

\* C19 (turn boundaries are justified): of two adjacent turns, either both
\* are of one speaker and the later starts at least MAX_PAUSE_THRESHOLD
\* after the end of the earlier, or they are of different speakers and the
\* trimmed text of the row that seeded the later is not a backchannel.
C19_BoundariesJustified ==
    Seeded =>
        \A t \in 1..(Len(AllTurns) - 1) :
            IF AllTurns[t + 1].speaker = AllTurns[t].speaker
              THEN AllTurns[t + 1].start - AllTurns[t].end >= MAX_PAUSE_THRESHOLD
              ELSE ~is_backchannel(Strip(Str(SeedRowOf(t + 1).text)))

\* the written turns hold a boundary of each kind
C19_Witness ==
    /\ pc = "done"
    /\ Len(turns) = 3
    /\ \E t \in 1..2 : turns[t].speaker = turns[t + 1].speaker
    /\ \E t \in 1..2 : turns[t].speaker # turns[t + 1].speaker

=============================================================================
